---- MODULE Spec2Model ----
(***************************************************************************)
(* Model of inference/dashboard.py: the live dashboard fed by a            *)
(* multiprocessing queue.  plot_dashboard() owns seven parallel lists      *)
(* (three rolling series), three charts and three FuncAnimation timers     *)
(* that all call the same closure update().  update() reads the clock,     *)
(* prunes the series, drains the queue and redraws the charts.             *)
(*                                                                         *)
(* Time is counted in whole seconds, so max_time_window = 1.0 is 1.        *)
(* A stored timestamp or payload carries the identity (id) of the queue    *)
(* entry it came from; joint sequences are represented by their length,    *)
(* the only thing about them that the control flow of update() depends on. *)
(***************************************************************************)
EXTENDS Integers, Sequences, FiniteSets, TLC

\* ---------------------------------------------------------------- bounds
\* Number of entries the producer puts on the queue in a run.
MaxSamples == 2
\* Largest clock reading and largest timestamp of a sample, in seconds.
MaxTime == 2

\* ------------------------------------------------------ program constants
\* max_time_window = 1.0 (seconds)
max_time_window == 1
\* num_joints = len(joint_names)
num_joints == 10

\* ------------------------------------------------------------ value space
\* A timestamp on which current_time - t raises TypeError (a str, None, ...).
NonNumeric == 0 - 1
\* xlim of an axis that has been created or cleared but not given set_xlim.
AutoLim == 0 - 1
\* Value of avail before the drain loop has tested the queue.
Unset == 0 - 1

\* Readings of the clock.
Times == 0 .. MaxTime
\* Timestamps the producer gives a sample: the oldest and the newest one the
\* clock range allows, in any order and whatever the clock reads.
Stamps == {0, MaxTime}
Kinds == {"frequency", "positions", "velocities"}
Charts == {"freq", "pos", "vel"}
Animations == {"ani_freq", "ani_pos", "ani_vel"}

\* What the producer can put on the queue.  pair: the entry is a 2-tuple
\* (data_type, data); wrongArity: len(data) is not what the branch of the
\* kind unpacks; t: data[0]; n, m: lengths of the joint sequences data[1]
\* and data[2] (unused fields hold num_joints).
Shapes ==
    \* well-formed samples
    [pair : {TRUE}, kind : Kinds, wrongArity : {FALSE}, t : Stamps,
     n : {num_joints}, m : {num_joints}]
    \cup
    \* recognized kind, payload of the wrong arity
    [pair : {TRUE}, kind : Kinds, wrongArity : {TRUE}, t : {0},
     n : {num_joints}, m : {num_joints}]
    \cup
    \* recognized kind, non-numeric timestamp
    [pair : {TRUE}, kind : Kinds, wrongArity : {FALSE}, t : {NonNumeric},
     n : {num_joints}, m : {num_joints}]
    \cup
    \* joint sequence with a missing element
    [pair : {TRUE}, kind : {"positions"}, wrongArity : {FALSE}, t : {0},
     n : {num_joints - 1}, m : {num_joints}]
    \cup
    [pair : {TRUE}, kind : {"positions"}, wrongArity : {FALSE}, t : {0},
     n : {num_joints}, m : {num_joints - 1}]
    \cup
    [pair : {TRUE}, kind : {"velocities"}, wrongArity : {FALSE}, t : {0},
     n : {num_joints - 1}, m : {num_joints}]
    \cup
    \* unrecognized kind
    [pair : {TRUE}, kind : {"other"}, wrongArity : {FALSE}, t : {0},
     n : {num_joints}, m : {num_joints}]
    \cup
    \* not a (kind, payload) pair
    [pair : {FALSE}, kind : {"other"}, wrongArity : {FALSE}, t : {0},
     n : {num_joints}, m : {num_joints}]

Entry(id, s) ==
    [id |-> id, pair |-> s.pair, kind |-> s.kind, wrongArity |-> s.wrongArity,
     t |-> s.t, n |-> s.n, m |-> s.m]

NoEntry ==
    [id |-> 0, pair |-> FALSE, kind |-> "none", wrongArity |-> FALSE,
     t |-> 0, n |-> num_joints, m |-> num_joints]

\* A sample the producer formed as section 6 of the interface prescribes.
WellFormed(e) ==
    /\ e.pair
    /\ e.kind \in Kinds
    /\ ~e.wrongArity
    /\ e.t # NonNumeric
    /\ e.n = num_joints
    /\ e.m = num_joints

\* ------------------------------------------------------------------ state
VARIABLES
    clock,              \* latest reading of time.time()
    queue,              \* data_queue
    nextId,             \* identity of the next entry the producer puts
    time_data, freq_data,
    position_time, positions, desired_positions,
    velocity_time, velocities,
    chart,              \* per chart: x data of the drawn lines, xlim, joints drawn
    step,               \* 0: no callback running; else index into StepOrder
    current_time,       \* update()'s local current_time
    last,               \* entry bound by the latest get_nowait() of the call
    exc,                \* where an exception left the latest call of update()
    errors,             \* "Error processing queue data" lines of this call
    avail,              \* queue length when the drain loop first tested it
    drained,            \* entries taken off the queue by this call
    stepLog             \* steps the latest call has completed

lists == <<time_data, freq_data, position_time, positions, desired_positions,
           velocity_time, velocities>>
\* What lives only while a call of update() runs.
locals == <<current_time, last, errors, avail, drained>>
vars == <<clock, queue, nextId, time_data, freq_data, position_time, positions,
          desired_positions, velocity_time, velocities, chart, step,
          current_time, last, exc, errors, avail, drained, stepLog>>

\* The seven lists as one record, the closure state update() works on.
Buffers ==
    [time_data |-> time_data, freq_data |-> freq_data,
     position_time |-> position_time, positions |-> positions,
     desired_positions |-> desired_positions,
     velocity_time |-> velocity_time, velocities |-> velocities]

ListNames == DOMAIN Buffers

\* ------------------------------------------------------------ prune_data
\* prune_data(time_array, *data_arrays) with the closure's current_time:
\* pops the head of every array while the head timestamp is older than the
\* window.  The subtraction raises on a non-numeric head.
\* prune_data that pops the time array and forgets the data arrays.
RECURSIVE prune_data_TimeOnly(_, _, _)
prune_data_TimeOnly(now, time_array, data_arrays) ==
    IF time_array = <<>>
    THEN [raised |-> FALSE, time |-> time_array, data |-> data_arrays]
    ELSE IF Head(time_array).t = NonNumeric
    THEN [raised |-> TRUE, time |-> time_array, data |-> data_arrays]
    ELSE IF (now - Head(time_array).t) > max_time_window
    THEN prune_data_TimeOnly(now, Tail(time_array), data_arrays)
    ELSE [raised |-> FALSE, time |-> time_array, data |-> data_arrays]

RECURSIVE prune_data(_, _, _)
prune_data(now, time_array, data_arrays) ==
    IF time_array = <<>>
    THEN [raised |-> FALSE, time |-> time_array, data |-> data_arrays]
    ELSE IF Head(time_array).t = NonNumeric
    THEN [raised |-> TRUE, time |-> time_array, data |-> data_arrays]
    ELSE IF (now - Head(time_array).t) > max_time_window
    THEN prune_data(now, Tail(time_array),
                    [i \in DOMAIN data_arrays |-> Tail(data_arrays[i])])
    ELSE [raised |-> FALSE, time |-> time_array, data |-> data_arrays]

\* The three calls of prune_data, in order; an exception ends the sequence.
PruneAll(now, b) ==
    LET f == prune_data(now, b.time_data, <<b.freq_data>>)
        b1 == [b EXCEPT !.time_data = f.time, !.freq_data = f.data[1]]
        p == prune_data(now, b1.position_time,
                        <<b1.positions, b1.desired_positions>>)
        b2 == [b1 EXCEPT !.position_time = p.time, !.positions = p.data[1],
                         !.desired_positions = p.data[2]]
        v == prune_data(now, b2.velocity_time, <<b2.velocities>>)
        b3 == [b2 EXCEPT !.velocity_time = v.time, !.velocities = v.data[1]]
    IN  IF f.raised THEN [raised |-> TRUE, buf |-> b1]
        ELSE IF p.raised THEN [raised |-> TRUE, buf |-> b2]
        ELSE [raised |-> v.raised, buf |-> b3]

\* ---------------------------------------------------------------- ingest
\* What the appends store: the timestamp data[0], and a payload element.
Stamp(e) == [id |-> e.id, t |-> e.t]
Value(e, len) == [id |-> e.id, len |-> len]

\* The dispatch with a final 'else' in place of "elif data_type == 'velocities'".
Ingest_ElseBranch(e, b) ==
    IF ~e.pair
    THEN [raised |-> TRUE, buf |-> b]
    ELSE IF e.kind = "frequency"
    THEN IF e.wrongArity
         THEN [raised |-> TRUE, buf |-> b]
         ELSE [raised |-> FALSE,
               buf |-> [b EXCEPT !.time_data = Append(@, Stamp(e)),
                                 !.freq_data = Append(@, Value(e, 1))]]
    ELSE IF e.kind = "positions"
    THEN IF e.wrongArity
         THEN [raised |-> TRUE, buf |-> b]
         ELSE [raised |-> FALSE,
               buf |-> [b EXCEPT !.position_time = Append(@, Stamp(e)),
                                 !.positions = Append(@, Value(e, e.n)),
                                 !.desired_positions = Append(@, Value(e, e.m))]]
    ELSE IF e.wrongArity
         THEN [raised |-> TRUE, buf |-> b]
         ELSE [raised |-> FALSE,
               buf |-> [b EXCEPT !.velocity_time = Append(@, Stamp(e)),
                                 !.velocities = Append(@, Value(e, e.n))]]

\* The dispatch whose 'velocities' branch appends the timestamp to
\* position_time as well.
Ingest_WrongSeries(e, b) ==
    IF ~e.pair
    THEN [raised |-> TRUE, buf |-> b]
    ELSE IF e.kind = "frequency"
    THEN IF e.wrongArity
         THEN [raised |-> TRUE, buf |-> b]
         ELSE [raised |-> FALSE,
               buf |-> [b EXCEPT !.time_data = Append(@, Stamp(e)),
                                 !.freq_data = Append(@, Value(e, 1))]]
    ELSE IF e.kind = "positions"
    THEN IF e.wrongArity
         THEN [raised |-> TRUE, buf |-> b]
         ELSE [raised |-> FALSE,
               buf |-> [b EXCEPT !.position_time = Append(@, Stamp(e)),
                                 !.positions = Append(@, Value(e, e.n)),
                                 !.desired_positions = Append(@, Value(e, e.m))]]
    ELSE IF e.kind = "velocities"
    THEN IF e.wrongArity
         THEN [raised |-> TRUE, buf |-> b]
         ELSE [raised |-> FALSE,
               buf |-> [b EXCEPT !.position_time = Append(@, Stamp(e)),
                                 !.velocity_time = Append(@, Stamp(e)),
                                 !.velocities = Append(@, Value(e, e.n))]]
    ELSE [raised |-> FALSE, buf |-> b]

\* Body of the try block for the entry e that get_nowait() returned:
\* unpack (data_type, data), dispatch on data_type, unpack data, append.
\* Every unpacking precedes the appends of its branch.
Ingest(e, b) ==
    IF ~e.pair
    THEN [raised |-> TRUE, buf |-> b]
    ELSE IF e.kind = "frequency"
    THEN IF e.wrongArity
         THEN [raised |-> TRUE, buf |-> b]
         ELSE [raised |-> FALSE,
               buf |-> [b EXCEPT !.time_data = Append(@, Stamp(e)),
                                 !.freq_data = Append(@, Value(e, 1))]]
    ELSE IF e.kind = "positions"
    THEN IF e.wrongArity
         THEN [raised |-> TRUE, buf |-> b]
         ELSE [raised |-> FALSE,
               buf |-> [b EXCEPT !.position_time = Append(@, Stamp(e)),
                                 !.positions = Append(@, Value(e, e.n)),
                                 !.desired_positions = Append(@, Value(e, e.m))]]
    ELSE IF e.kind = "velocities"
    THEN IF e.wrongArity
         THEN [raised |-> TRUE, buf |-> b]
         ELSE [raised |-> FALSE,
               buf |-> [b EXCEPT !.velocity_time = Append(@, Stamp(e)),
                                 !.velocities = Append(@, Value(e, e.n))]]
    ELSE [raised |-> FALSE, buf |-> b]

\* ---------------------------------------------------------------- redraw
Min(S) == CHOOSE x \in S : \A y \in S : x <= y

\* Number of joint lines the loop 'for i in range(num_joints)' draws before
\* pos[i] raises IndexError: the length of the shortest joint sequence.
JointsDrawn(arrays) ==
    Min({num_joints} \cup
        UNION {{arrays[k][i].len : i \in DOMAIN arrays[k]} : k \in DOMAIN arrays})

\* A chart: the x data of its lines, its xlim (the right edge; the left one
\* is xlim - max_time_window) and the number of joints whose lines the
\* joint loop drew (num_joints when nothing stopped it).
InitChart == [data |-> <<>>, xlim |-> AutoLim, joints |-> num_joints]

\* One chart's part of update().  Result: the chart and whether an exception
\* left.  ax.plot and min/max are taken to accept whatever values the lists
\* hold; the exception modelled is the IndexError of pos[i], dpos[i], vel[i].
\*   skipped : the guard 'if time_array and ...' is false
\*   else    : ax.clear(), the joint loop with its plot calls, then set_xlim
\* arrays: the data lists of the guard; joints: those indexed by joint.
RedrawChart(old, now, time_array, arrays, joints) ==
    IF time_array = <<>> \/ \E k \in DOMAIN arrays : arrays[k] = <<>>
    THEN [raised |-> FALSE, chart |-> old]
    ELSE IF JointsDrawn(joints) < num_joints
    THEN [raised |-> TRUE,
          chart |-> [data |-> IF JointsDrawn(joints) = 0 THEN <<>> ELSE time_array,
                     xlim |-> AutoLim, joints |-> JointsDrawn(joints)]]
    ELSE [raised |-> FALSE,
          chart |-> [data |-> time_array, xlim |-> now, joints |-> num_joints]]

\* The three chart updates in order; an exception ends update().
RedrawAll(c, now, b) ==
    LET f == RedrawChart(c["freq"], now, b.time_data, <<b.freq_data>>, <<>>)
        p == RedrawChart(c["pos"], now, b.position_time,
                         <<b.positions, b.desired_positions>>,
                         <<b.positions, b.desired_positions>>)
        v == RedrawChart(c["vel"], now, b.velocity_time, <<b.velocities>>,
                         <<b.velocities>>)
    IN  IF f.raised
        THEN [raised |-> TRUE, chart |-> [c EXCEPT !["freq"] = f.chart]]
        ELSE IF p.raised
        THEN [raised |-> TRUE,
              chart |-> [c EXCEPT !["freq"] = f.chart, !["pos"] = p.chart]]
        ELSE [raised |-> v.raised,
              chart |-> [c EXCEPT !["freq"] = f.chart, !["pos"] = p.chart,
                                  !["vel"] = v.chart]]

\* --------------------------------------------------------------- update()
\* update() with the queue drained before the series are pruned.
StepOrder_IngestFirst == <<"ingest", "prune", "redraw">>

\* Order of the steps in the body of update().
StepOrder == <<"prune", "ingest", "redraw">>

AtStep(name) == step \in DOMAIN StepOrder /\ StepOrder[step] = name
NextStep == IF step = Len(StepOrder) THEN 0 ELSE step + 1

SetBuffers(b) ==
    /\ time_data' = b.time_data
    /\ freq_data' = b.freq_data
    /\ position_time' = b.position_time
    /\ positions' = b.positions
    /\ desired_positions' = b.desired_positions
    /\ velocity_time' = b.velocity_time
    /\ velocities' = b.velocities

\* update() returns or an exception leaves it: its locals are gone.
Return ==
    /\ current_time' = 0
    /\ last' = NoEntry
    /\ errors' = 0
    /\ avail' = Unset
    /\ drained' = 0

\* A timer of one of the three animations (a) fires and calls update(frame),
\* which reads the clock (now, no earlier than the reading before it).  The
\* callbacks run on the one UI thread, so a call starts only when no other
\* call is running.  update() ignores frame.
UpdateStart(a, now) ==
    /\ step = 0
    /\ now >= clock
    /\ clock' = now
    /\ step' = 1
    /\ current_time' = now
    /\ exc' = "none"
    /\ stepLog' = <<>>
    /\ UNCHANGED <<queue, nextId, lists, chart, last, errors, avail, drained>>

\* prune_data over the three series.
Prune ==
    /\ AtStep("prune")
    /\ LET r == PruneAll(current_time, Buffers)
       IN  /\ SetBuffers(r.buf)
           /\ IF r.raised
              THEN /\ exc' = "prune"
                   /\ step' = 0
                   /\ stepLog' = stepLog
                   /\ Return
              ELSE /\ exc' = exc
                   /\ step' = NextStep
                   /\ stepLog' = Append(stepLog, "prune")
                   /\ UNCHANGED locals
    /\ UNCHANGED <<clock, queue, nextId, chart>>

\* One iteration of 'while not data_queue.empty()': get_nowait() and the
\* try block; an exception is printed and the loop goes on.
DrainOne ==
    /\ AtStep("ingest")
    /\ queue # <<>>
    /\ LET e == Head(queue)
           r == Ingest(e, Buffers)
       IN  /\ queue' = Tail(queue)
           /\ last' = e
           /\ SetBuffers(r.buf)
           /\ errors' = IF r.raised THEN errors + 1 ELSE errors
    /\ avail' = IF avail = Unset THEN Len(queue) ELSE avail
    /\ drained' = drained + 1
    /\ UNCHANGED <<clock, nextId, chart, step, current_time, exc, stepLog>>

\* data_queue.empty() is true: the loop ends.
DrainEnd ==
    /\ AtStep("ingest")
    /\ queue = <<>>
    /\ avail' = IF avail = Unset THEN 0 ELSE avail
    /\ step' = NextStep
    /\ stepLog' = Append(stepLog, "ingest")
    /\ UNCHANGED <<clock, queue, nextId, lists, chart, current_time, last,
                   exc, errors, drained>>

\* The three chart updates and the layout calls; update() returns.
Redraw ==
    /\ AtStep("redraw")
    /\ LET r == RedrawAll(chart, current_time, Buffers)
       IN  /\ chart' = r.chart
           /\ exc' = IF r.raised THEN "redraw" ELSE exc
           /\ stepLog' = IF r.raised THEN stepLog ELSE Append(stepLog, "redraw")
    /\ step' = NextStep
    /\ IF NextStep = 0 THEN Return ELSE UNCHANGED locals
    /\ UNCHANGED <<clock, queue, nextId, lists>>

\* ------------------------------------------------------------ environment
\* The producer process puts an entry on the queue returned by run_dashboard.
Put(s) ==
    /\ nextId <= MaxSamples
    /\ queue' = Append(queue, Entry(nextId, s))
    /\ nextId' = nextId + 1
    /\ UNCHANGED <<clock, lists, chart, step, current_time, last, exc,
                   errors, avail, drained, stepLog>>

Init ==
    /\ clock = 0
    /\ queue = <<>>
    /\ nextId = 1
    /\ time_data = <<>>
    /\ freq_data = <<>>
    /\ position_time = <<>>
    /\ positions = <<>>
    /\ desired_positions = <<>>
    /\ velocity_time = <<>>
    /\ velocities = <<>>
    /\ chart = [c \in Charts |-> InitChart]
    /\ step = 0
    /\ current_time = 0
    /\ last = NoEntry
    /\ exc = "none"
    /\ errors = 0
    /\ avail = Unset
    /\ drained = 0
    /\ stepLog = <<>>

Next ==
    \/ \E a \in Animations, now \in Times : UpdateStart(a, now)
    \/ Prune
    \/ DrainOne
    \/ DrainEnd
    \/ Redraw
    \/ \E s \in Shapes : Put(s)

Spec == Init /\ [][Next]_vars

\* ================================================================ claims
\* The time list and the data lists of each rolling series.
TimeList == [c \in Charts |->
    IF c = "freq" THEN "time_data"
    ELSE IF c = "pos" THEN "position_time" ELSE "velocity_time"]
DataLists == [c \in Charts |->
    IF c = "freq" THEN {"freq_data"}
    ELSE IF c = "pos" THEN {"positions", "desired_positions"}
    ELSE {"velocities"}]
ChartOf == [k \in Kinds |->
    IF k = "frequency" THEN "freq" ELSE IF k = "positions" THEN "pos" ELSE "vel"]
ListsOf(kind) ==
    IF kind \in Kinds THEN {TimeList[ChartOf[kind]]} \cup DataLists[ChartOf[kind]]
    ELSE {}

Prefixes(s) == {SubSeq(s, 1, n) : n \in 0 .. Len(s)}
\* The prune step of the running call has just completed.
JustPruned == step # 0 /\ stepLog = <<"prune">> /\ drained = 0
\* The running call takes the head entry off the queue.
Dequeues == step # 0 /\ queue # <<>> /\ queue' = Tail(queue)
Grows(L) == Len(Buffers'[L]) > Len(Buffers[L])
ListsUnchanged == Buffers' = Buffers

\* C1: immediately after the prune step of a tick, every timestamp t retained
\* in any of the three series satisfies current_time - t <= 1.0, whatever the
\* order in which the samples arrived.
C1_AllRetainedWithinWindow ==
    JustPruned =>
        \A c \in Charts : \A i \in DOMAIN Buffers[TimeList[c]] :
            LET t == Buffers[TimeList[c]][i].t
            IN  t # NonNumeric => current_time - t <= max_time_window

\* C2: a queue entry that is not a (kind, payload) pair, or whose kind is
\* recognized and whose payload is malformed, is skipped by the drain: the
\* three series stay as they were and the drain loop goes on.
Malformed(e) == ~e.pair \/ (e.kind \in Kinds /\ ~WellFormed(e))
C2_MalformedSkipped ==
    [][(Dequeues /\ Malformed(Head(queue)))
          => (ListsUnchanged /\ step' = step /\ exc' = exc)]_vars

\* C3: a queue entry of an unrecognized kind is taken off the queue, leaves
\* the three series unchanged, logs nothing and raises nothing: the drain
\* loop goes on.
C3_UnknownKindIgnored ==
    [][(AtStep("ingest") /\ queue # <<>> /\ Head(queue).pair
           /\ Head(queue).kind \notin Kinds /\ drained' # drained)
          => (queue' = Tail(queue) /\ ListsUnchanged /\ errors' = errors
                /\ step' = step /\ exc' = exc)]_vars
C3_Witness ==
    /\ step # 0
    /\ last.pair
    /\ last.kind = "other"
    /\ drained = 2

\* C4: no exception leaves update(), in prune, ingest or redraw.
C4_NoExceptionEscapes == exc = "none"

\* C5: every entry is taken off the queue once, and a well-formed sample is
\* appended once to each list of the series of its kind and to no other
\* list, in every interleaving of the timer callbacks and the producer.
C5_NoDuplicate ==
    /\ \A L \in ListNames : \A i, j \in DOMAIN Buffers[L] :
          i < j => Buffers[L][i].id < Buffers[L][j].id
    /\ \A L \in ListNames : \A i \in DOMAIN Buffers[L] :
          \A q \in DOMAIN queue : Buffers[L][i].id < queue[q].id
    /\ \A c, d \in Charts : \A i \in DOMAIN Buffers[TimeList[c]] :
          \A j \in DOMAIN Buffers[TimeList[d]] :
              c # d => Buffers[TimeList[c]][i].id # Buffers[TimeList[d]][j].id
C5_AppendStep ==
    /\ \A L \in ListNames :
          Grows(L) =>
              /\ Dequeues
              /\ L \in ListsOf(Head(queue).kind)
              /\ Len(Buffers'[L]) = Len(Buffers[L]) + 1
              /\ SubSeq(Buffers'[L], 1, Len(Buffers[L])) = Buffers[L]
              /\ Buffers'[L][Len(Buffers'[L])].id = Head(queue).id
    /\ (Dequeues /\ WellFormed(Head(queue)))
          => \A L \in ListsOf(Head(queue).kind) : Grows(L)
C6_DrainBoundedBySnapshot == avail # Unset => drained <= avail

\* C7: when the redraw step runs with a chart's series empty, that chart
\* keeps its drawn data and axis limits, and each other chart whose series
\* is not empty is redrawn from its own series.
SeriesEmpty(c) == Buffers[TimeList[c]] = <<>>
Redrawn(c) ==
    [data |-> Buffers[TimeList[c]], xlim |-> current_time, joints |-> num_joints]
C7_EmptySkippedOthersRedrawn ==
    [][(AtStep("redraw") /\ step' # step)
          => \A c \in Charts :
                SeriesEmpty(c) =>
                    /\ chart'[c] = chart[c]
                    /\ \A d \in Charts \ {c} :
                          ~SeriesEmpty(d) => chart'[d] = Redrawn(d)]_vars

\* C8 as stated: the steps of a tick run in the order ingest, prune, redraw.
C8_IngestPruneRedraw == stepLog \in Prefixes(<<"ingest", "prune", "redraw">>)
\* C8 as amended: the steps of a tick run in the order prune, ingest, redraw,
\* and whenever a sample is appended the prune of that tick has already run
\* (and the redraw has not), so the sample is drawn without that tick's
\* eviction test.
C8_PruneIngestRedraw ==
    /\ [](stepLog \in Prefixes(<<"prune", "ingest", "redraw">>))
    /\ [][(\E L \in ListNames : Grows(L)) => stepLog = <<"prune">>]_vars
\* A tick has drawn a sample older than the window: the sample was appended
\* after the prune of that tick (the prune would have popped a lone stale head).
C8_Witness ==
    /\ step = 0
    /\ stepLog = <<"prune", "ingest", "redraw">>
    /\ Len(time_data) = 1
    /\ chart["freq"].data = time_data
    /\ chart["freq"].xlim - time_data[1].t > max_time_window

\* C9: the timestamps of each series are non-decreasing from front to back.
C9_TimestampsNonDecreasing ==
    \A c \in Charts : \A i, j \in DOMAIN Buffers[TimeList[c]] :
        LET ti == Buffers[TimeList[c]][i].t
            tj == Buffers[TimeList[c]][j].t
        IN  (i < j /\ ti # NonNumeric /\ tj # NonNumeric) => ti <= tj

\* C10: the parallel lists of each series have equal length and stay
\* index-aligned: the elements at one index come from the same queue entry.
C10_ListsAligned ==
    \A c \in Charts : \A L \in DataLists[c] :
        /\ Len(Buffers[L]) = Len(Buffers[TimeList[c]])
        /\ \A i \in DOMAIN Buffers[L] :
              Buffers[L][i].id = Buffers[TimeList[c]][i].id
\* A tick in which an entry raised during ingest has reached its redraw with
\* a sample in the positions series.
C10_Witness ==
    /\ AtStep("redraw")
    /\ errors > 0
    /\ Len(position_time) = 1
    /\ Len(desired_positions) = 1

====
